---- MODULE Spec2Model ----
\* Model of ArbitrageDetector (src/arbitrage_detector.py) and of the Dash
\* callback update_table (src/main.py) that reads its result dictionary.
EXTENDS Integers, Sequences, FiniteSets, TLC

VARIABLES
    exchangeInfo,        \* the "symbols" list of the exchangeInfo response
    trading_pair_limit,  \* self.trading_pair_limit
    all_trading_pairs,   \* self.all_trading_pairs (capsules)
    correct_triangles,   \* self.correct_triangles
    symbols,             \* self.symbols (the subscribed stream names)
    book_ticker_data,    \* self.book_ticker_data
    result,              \* self.result, an insertion-ordered dict
    pc,                  \* position of the ingestion thread
    data,                \* on_message: the tick being handled
    target,              \* on_message: index of the triangle the loop is at
    outcome,             \* how the last step of the on_message loop ended
    rd_pc,               \* position of the update_table callback
    rd_used,             \* dict iterator: size of the dict when it was made
    rd_pos,              \* dict iterator: position
    element,             \* update_table: the loop variable
    rd_row,              \* update_table: the fields of the row being built
    rd_src,              \* the dict values the fields of the row were read from
    display_data,        \* update_table: the rows built so far
    printed,             \* the last line on_close or on_error printed
    after_eval           \* per triangle: the entry under its code as its last
                         \* evaluation left it, while no leg was ticked since

vars == <<exchangeInfo, trading_pair_limit, all_trading_pairs, correct_triangles,
          symbols, book_ticker_data, result, pc, data, target, outcome,
          rd_pc, rd_used, rd_pos, element, rd_row, rd_src, display_data,
          printed, after_eval>>

ctorVars == <<exchangeInfo, trading_pair_limit, all_trading_pairs,
              correct_triangles, symbols>>

readerVars == <<rd_pc, rd_used, rd_pos, element, rd_row, rd_src, display_data>>

auxVars == <<printed, after_eval>>

-----------------------------------------------------------------------------
\* Inputs: the records an exchangeInfo response may hold.

Record(s, b, q) == [symbol |-> s, baseAsset |-> b, quoteAsset |-> q]

R_ETHBTC == Record("ETHBTC", "ETH", "BTC")

R_BNBETH == Record("BNBETH", "BNB", "ETH")

R_BNBBTC == Record("BNBBTC", "BNB", "BTC")

\* the mirror of BNBBTC
R_BTCBNB == Record("BTCBNB", "BTC", "BNB")

\* a second symbol with the base and quote of ETHBTC
R_ETHBTCX == Record("ETHBTCX", "ETH", "BTC")

\* a fourth asset
R_XRPBTC == Record("XRPBTC", "XRP", "BTC")

\* neither asset is a target asset
R_FOOBAR == Record("FOOBAR", "FOO", "BAR")

Universe ==
    {R_ETHBTC, R_BNBETH, R_BNBBTC, R_BTCBNB, R_ETHBTCX, R_XRPBTC, R_FOOBAR}

MaxCat == 4

MaxLimit == 4

Range(f) == {f[i] : i \in DOMAIN f}

Injective(f) == \A i, j \in DOMAIN f : i # j => f[i] # f[j]

AllCatalogs ==
    UNION {{c \in [1..n -> Universe] : Injective(c)} : n \in 0..MaxCat}

\* the catalogs the running detector is explored with
CatScenario == <<R_ETHBTC, R_BNBETH, R_BNBBTC>>

CatMirror == <<R_BNBETH, R_ETHBTC, R_BNBBTC, R_BTCBNB>>

CatCycle == <<R_ETHBTC, R_BTCBNB, R_BNBETH>>

CatNoChain == <<R_ETHBTC, R_ETHBTCX, R_BNBBTC, R_FOOBAR>>

\* the catalog the reader is explored with
ConcCatalogs == {CatScenario}

RunCatalogs == {CatScenario, CatMirror, CatCycle, CatNoChain}

-----------------------------------------------------------------------------
\* Construction: fetch_trading_pairs, find_correct_triangles, build_stream.

target_assets ==
    {"BTC", "USDT", "ETH", "BNB", "XRP", "ADA", "SOL", "DOT", "DOGE", "LTC", "LINK"}

TradingPairLimit == 400

Capsule(e) == [symbol |-> e.symbol, left |-> e.baseAsset, right |-> e.quoteAsset]

\* a loop that tests the cap with > and so keeps one capsule too many
RECURSIVE FetchLoopOneMore(_, _, _, _)
FetchLoopOneMore(info, i, capsules, limit) ==
    IF i > Len(info) \/ Len(capsules) > limit
    THEN capsules
    ELSE FetchLoopOneMore(info, i + 1,
                          IF info[i].baseAsset \in target_assets
                             \/ info[i].quoteAsset \in target_assets
                          THEN Append(capsules, Capsule(info[i]))
                          ELSE capsules,
                          limit)

RECURSIVE FetchLoop(_, _, _, _)
FetchLoop(info, i, capsules, limit) ==
    IF i > Len(info) \/ Len(capsules) >= limit
    THEN capsules
    ELSE FetchLoop(info, i + 1,
                   IF info[i].baseAsset \in target_assets
                      \/ info[i].quoteAsset \in target_assets
                   THEN Append(capsules, Capsule(info[i]))
                   ELSE capsules,
                   limit)

fetch_trading_pairs(info, limit) == FetchLoop(info, 1, <<>>, limit)

LexLess(x, y) ==
    \/ x[1] < y[1]
    \/ x[1] = y[1] /\ x[2] < y[2]
    \/ x[1] = y[1] /\ x[2] = y[2] /\ x[3] < y[3]

RECURSIVE LexSeq(_)
LexSeq(S) ==
    IF S = {} THEN <<>>
    ELSE LET m == CHOOSE x \in S : \A y \in S \ {x} : LexLess(x, y)
         IN  <<m>> \o LexSeq(S \ {m})

\* itertools.combinations(data, 3): index triples in lexicographic order
find_combinations_of_3(pairs) ==
    LET n == Len(pairs)
        idx == LexSeq({t \in (1..n) \X (1..n) \X (1..n) : t[1] < t[2] /\ t[2] < t[3]})
    IN  [c \in 1..Len(idx) |-> <<pairs[idx[c][1]], pairs[idx[c][2]], pairs[idx[c][3]]>>]

check_if_triangle(comb) ==
    Cardinality({comb[i].left : i \in 1..Len(comb)}
                \cup {comb[i].right : i \in 1..Len(comb)})

\* a check that compares neighbouring items only
check_circular_adjacent(comb) ==
    ~ \E i \in 1..(Len(comb) - 1) :
          comb[i].left = comb[i + 1].right /\ comb[i].right = comb[i + 1].left

check_circular_pairs(comb) ==
    ~ \E i \in 1..Len(comb) : \E j \in (i + 1)..Len(comb) :
          comb[i].left = comb[j].right /\ comb[i].right = comb[j].left

IsCorrect(comb) == check_if_triangle(comb) = 3 /\ check_circular_pairs(comb)

find_correct_triangles(pairs) == SelectSeq(find_combinations_of_3(pairs), IsCorrect)

build_stream(triangles) ==
    {triangles[t][i].symbol : t \in 1..Len(triangles), i \in 1..3}

-----------------------------------------------------------------------------
\* decimal.Decimal under the default context: 28 significant digits, rounding
\* half to even, DivisionByZero trapped.  A non-zero decimal is a sign, the
\* digits d1 d2 .. dk of its coefficient (d1 # 0) and the exponent e of d1:
\* its value is sign * d1.d2..dk * 10^e.  Zero has no digits.

Prec == 28

Dec(sg, ds, e) == [sign |-> sg, digits |-> ds, exp |-> e]

DecZero == Dec(0, <<>>, 0)

Abs(n) == IF n < 0 THEN -n ELSE n

Sgn(n) == IF n < 0 THEN -1 ELSE IF n = 0 THEN 0 ELSE 1

RECURSIVE NatDigits(_)
NatDigits(n) == IF n < 10 THEN <<n>> ELSE Append(NatDigits(n \div 10), n % 10)

\* Decimal("<integer>")
DecOfInt(n) ==
    IF n = 0 THEN DecZero
    ELSE LET ds == NatDigits(Abs(n)) IN Dec(Sgn(n), ds, Len(ds) - 1)

\* add one unit in the last place of a digit string; the carry may lengthen it
RECURSIVE Incr(_)
Incr(ds) ==
    IF ds = <<>> THEN <<1>>
    ELSE LET k == Len(ds) IN
         IF ds[k] < 9 THEN [ds EXCEPT ![k] = ds[k] + 1]
         ELSE Append(Incr(SubSeq(ds, 1, k - 1)), 0)

AllZero(ds) == \A i \in 1..Len(ds) : ds[i] = 0

\* round a coefficient to Prec digits, half to even; e is the exponent of ds[1]
RoundPrec(sg, ds, e) ==
    IF Len(ds) <= Prec THEN Dec(sg, ds, e)
    ELSE LET keep == SubSeq(ds, 1, Prec)
             drop == SubSeq(ds, Prec + 1, Len(ds))
             up   == \/ drop[1] > 5
                     \/ drop[1] = 5 /\ ~AllZero(Tail(drop))
                     \/ drop[1] = 5 /\ AllZero(Tail(drop)) /\ keep[Prec] % 2 = 1
             r    == IF up THEN Incr(keep) ELSE keep
         IN  IF Len(r) > Prec THEN Dec(sg, SubSeq(r, 1, Prec), e + 1)
             ELSE Dec(sg, r, e)

\* long division r / d, k more digits: the digits and the last remainder
RECURSIVE LongDiv(_, _, _, _)
LongDiv(r, d, k, acc) ==
    IF k = 0 \/ r = 0 THEN [digits |-> acc, rem |-> r]
    ELSE LongDiv((r * 10) % d, d, k - 1, Append(acc, (r * 10) \div d))

\* scale the dividend until the first quotient digit is not zero
RECURSIVE Scale(_, _, _)
Scale(r, d, e) == IF r >= d THEN <<r, e>> ELSE Scale(r * 10, d, e - 1)

\* 1 / Decimal(d), d a non-zero integer
DecRecip(d) ==
    LET m   == Abs(d)
        sc  == Scale(1, m, 0)
        q   == LongDiv(sc[1] % m, m, Prec - 1, <<sc[1] \div m>>)
        up  == \/ 2 * q.rem > m
               \/ 2 * q.rem = m /\ q.digits[Len(q.digits)] % 2 = 1
        r   == IF up THEN Incr(q.digits) ELSE q.digits
    IN  IF Len(r) > Prec THEN Dec(Sgn(d), SubSeq(r, 1, Prec), sc[2] + 1)
        ELSE Dec(Sgn(d), r, sc[2])

\* the digits of n * ds, n a natural number, from the last digit up
RECURSIVE MulDigits(_, _, _, _)
MulDigits(ds, n, carry, acc) ==
    IF ds = <<>>
    THEN (IF carry = 0 THEN acc ELSE NatDigits(carry) \o acc)
    ELSE LET k == Len(ds)
             v == ds[k] * n + carry
         IN  MulDigits(SubSeq(ds, 1, k - 1), n, v \div 10, <<v % 10>> \o acc)

\* Decimal(n) * x, n an integer
DecMulInt(n, x) ==
    IF n = 0 \/ x.sign = 0 THEN DecZero
    ELSE LET ds == MulDigits(x.digits, Abs(n), 0, <<>>)
         IN  RoundPrec(Sgn(n) * x.sign, ds, x.exp + (Len(ds) - Len(x.digits)))

\* x < 1
DecLtOne(x) == x.sign <= 0 \/ x.exp < 0

\* x > 1
DecGtOne(x) ==
    /\ x.sign = 1
    /\ \/ x.exp > 0
       \/ x.exp = 0 /\ (x.digits[1] > 1 \/ ~AllZero(Tail(x.digits)))

-----------------------------------------------------------------------------
\* The running detector: on_message and calculate_triangular_arbitrage.

\* the (ask, bid) a tick may carry, as the integers its "a" and "b" strings spell
TickQuotes == {<<1, 1>>, <<3, 1>>, <<3, 3>>, <<0, 1>>, <<1, 0>>}

\* a Python dict as its items in insertion order
Keys(d) == {d[i].key : i \in 1..Len(d)}

Get(d, k) == d[CHOOSE i \in 1..Len(d) : d[i].key = k].val

Put(d, k, v) ==
    IF k \in Keys(d)
    THEN [i \in 1..Len(d) |-> IF d[i].key = k THEN [key |-> k, val |-> v] ELSE d[i]]
    ELSE Append(d, [key |-> k, val |-> v])

\* (count1, count2) of every match of element1["right"] == element2["left"]
Hits(tp) == {h \in (0..2) \X (0..2) : tp[h[1] + 1].right = tp[h[2] + 1].left}

\* the match the nested loops reach first
FirstHit(tp) ==
    CHOOSE h \in Hits(tp) :
        \A g \in Hits(tp) \ {h} : h[1] < g[1] \/ (h[1] = g[1] /\ h[2] < g[2])

NoPair == [symbol |-> "", left |-> "", right |-> ""]

\* the assignment of AB, BC, AC; raised is the exception it ends in, if any:
\* an index of 3 is out of range, and without a match AB stays None
Legs(tp) ==
    IF Hits(tp) = {}
    THEN [raised |-> "TypeError", AB |-> NoPair, BC |-> NoPair, AC |-> NoPair]
    ELSE LET h == FirstHit(tp)
             k == Len(tp) - h[1] - h[2]
         IN  IF k >= Len(tp)
             THEN [raised |-> "IndexError", AB |-> tp[h[1] + 1], BC |-> tp[h[2] + 1],
                   AC |-> NoPair]
             ELSE [raised |-> "none", AB |-> tp[h[1] + 1], BC |-> tp[h[2] + 1],
                   AC |-> tp[((k + Len(tp)) % Len(tp)) + 1]]

arbitrage_code(L) == <<L.AB.left, L.AB.right, L.BC.right>>

\* the three-item list stored under the triangle code
Entry(L, btd, flag) ==
    << <<<<L.AB.symbol, btd[L.AB.symbol].a>>, <<L.BC.symbol, btd[L.BC.symbol].a>>,
         <<L.AC.symbol, btd[L.AC.symbol].a>>>>,
       <<<<L.AB.symbol, btd[L.AB.symbol].b>>, <<L.BC.symbol, btd[L.BC.symbol].b>>,
         <<L.AC.symbol, btd[L.AC.symbol].b>>>>,
       flag >>

\* (ask_AB * ask_BC) * (1 / bid_AC); the product of the two asks is exact
condition1(L, btd) ==
    DecMulInt(btd[L.AB.symbol].a * btd[L.BC.symbol].a, DecRecip(btd[L.AC.symbol].b))

\* (bid_AB * bid_BC) * (1 / ask_AC)
condition2(L, btd) ==
    DecMulInt(btd[L.AB.symbol].b * btd[L.BC.symbol].b, DecRecip(btd[L.AC.symbol].a))

\* the match the nested loops would reach last
LastHit(tp) ==
    CHOOSE h \in Hits(tp) :
        \A g \in Hits(tp) \ {h} : g[1] < h[1] \/ (g[1] = h[1] /\ g[2] < h[2])

\* an evaluation that takes its legs from the last match when the first pair of
\* the triangle asks 3: the roles then depend on the quotes
calculate_roles_by_quote(tp, btd, res) ==
    LET h == IF Hits(tp) # {} /\ btd[tp[1].symbol].a = 3 THEN LastHit(tp) ELSE <<0, 0>>
        k == Len(tp) - h[1] - h[2]
        L == IF Hits(tp) # {} /\ btd[tp[1].symbol].a = 3 /\ k < Len(tp)
             THEN [raised |-> "none", AB |-> tp[h[1] + 1], BC |-> tp[h[2] + 1],
                   AC |-> tp[((k + Len(tp)) % Len(tp)) + 1]]
             ELSE Legs(tp)
    IN
    IF L.raised # "none" THEN [raised |-> L.raised, result |-> res]
    ELSE IF btd[L.AC.symbol].b = 0 \/ btd[L.AC.symbol].a = 0
    THEN [raised |-> "DivisionByZero", result |-> res]
    ELSE [raised |-> "none",
          result |-> Put(res, arbitrage_code(L),
                         Entry(L, btd,
                               IF DecLtOne(condition1(L, btd)) \/ DecGtOne(condition2(L, btd))
                               THEN "YES" ELSE "NO"))]

\* an evaluation under a context that does not trap the division by a zero ask:
\* condition2 is Infinity and the result is stored
calculate_untrapped_ask(tp, btd, res) ==
    LET L == Legs(tp) IN
    IF L.raised # "none" THEN [raised |-> L.raised, result |-> res]
    ELSE IF btd[L.AC.symbol].b = 0
    THEN [raised |-> "DivisionByZero", result |-> res]
    ELSE [raised |-> "none",
          result |-> Put(res, arbitrage_code(L),
                         Entry(L, btd,
                               IF \/ DecLtOne(condition1(L, btd))
                                  \/ btd[L.AC.symbol].a = 0
                                  \/ DecGtOne(condition2(L, btd))
                               THEN "YES" ELSE "NO"))]

\* calculate_triangular_arbitrage(tp): the exception it raises, or "none", and
\* the result dict it leaves
calculate_triangular_arbitrage(tp, btd, res) ==
    LET L == Legs(tp) IN
    IF L.raised # "none" THEN [raised |-> L.raised, result |-> res]
    ELSE IF btd[L.AC.symbol].b = 0 \/ btd[L.AC.symbol].a = 0
    THEN [raised |-> "DivisionByZero", result |-> res]
    ELSE [raised |-> "none",
          result |-> Put(res, arbitrage_code(L),
                         Entry(L, btd,
                               IF DecLtOne(condition1(L, btd)) \/ DecGtOne(condition2(L, btd))
                               THEN "YES" ELSE "NO"))]

\* sum(1 for trading_pair in target if trading_pair["symbol"] in book_ticker_data)
count(tp, btd) == Cardinality({i \in 1..Len(tp) : tp[i].symbol \in DOMAIN btd})

-----------------------------------------------------------------------------

NoTick == [s |-> "", a |-> 0, b |-> 0]

NoRow == <<>>

Unknown == <<"unknown">>

\* nothing is known yet of any evaluation of the triangles
NoneEvaluated(triangles) == [t \in 1..Len(triangles) |-> Unknown]

Unbuilt ==
    /\ all_trading_pairs = <<>>
    /\ correct_triangles = <<>>
    /\ symbols = {}

Quiet ==
    /\ book_ticker_data = <<>>
    /\ result = <<>>
    /\ data = NoTick
    /\ target = 0
    /\ outcome = "none"
    /\ printed = ""
    /\ rd_pc = "idle"
    /\ rd_used = 0
    /\ rd_pos = 0
    /\ element = <<>>
    /\ rd_row = NoRow
    /\ rd_src = <<>>
    /\ display_data = <<>>

\* __init__ entered: nothing fetched yet
InitBuild ==
    /\ exchangeInfo \in AllCatalogs
    /\ trading_pair_limit \in 0..MaxLimit
    /\ Unbuilt
    /\ pc = "new"
    /\ Quiet
    /\ after_eval = <<>>

FetchTradingPairs ==
    /\ pc = "new"
    /\ all_trading_pairs' = fetch_trading_pairs(exchangeInfo, trading_pair_limit)
    /\ pc' = "fetched"
    /\ UNCHANGED <<exchangeInfo, trading_pair_limit, correct_triangles, symbols,
                   book_ticker_data, result, data, target, outcome>>
    /\ UNCHANGED readerVars
    /\ UNCHANGED auxVars

FindCorrectTriangles ==
    /\ pc = "fetched"
    /\ correct_triangles' = find_correct_triangles(all_trading_pairs)
    /\ pc' = "found"
    /\ after_eval' = NoneEvaluated(correct_triangles')
    /\ UNCHANGED <<exchangeInfo, trading_pair_limit, all_trading_pairs, symbols,
                   book_ticker_data, result, data, target, outcome, printed>>
    /\ UNCHANGED readerVars

BuildStream ==
    /\ pc = "found"
    /\ symbols' = build_stream(correct_triangles)
    /\ pc' = "idle"
    /\ UNCHANGED <<exchangeInfo, trading_pair_limit, all_trading_pairs,
                   correct_triangles, book_ticker_data, result, data, target, outcome>>
    /\ UNCHANGED readerVars
    /\ UNCHANGED auxVars

NextBuild == FetchTradingPairs \/ FindCorrectTriangles \/ BuildStream

SpecBuild == InitBuild /\ [][NextBuild]_vars

\* the detector as __init__ leaves it, the stream not yet opened
Init ==
    /\ exchangeInfo \in RunCatalogs
    /\ trading_pair_limit = TradingPairLimit
    /\ all_trading_pairs = fetch_trading_pairs(exchangeInfo, trading_pair_limit)
    /\ correct_triangles = find_correct_triangles(all_trading_pairs)
    /\ symbols = build_stream(correct_triangles)
    /\ pc = "idle"
    /\ Quiet
    /\ after_eval = NoneEvaluated(correct_triangles)

\* a handler that keeps the first quote of a symbol (setdefault)
OnMessageKeepFirst(s, a, b) ==
    /\ pc = "idle"
    /\ data' = [s |-> s, a |-> a, b |-> b]
    /\ book_ticker_data' =
           [x \in DOMAIN book_ticker_data \cup {s} |->
               IF x \in DOMAIN book_ticker_data THEN book_ticker_data[x] ELSE data']
    /\ target' = 1
    /\ outcome' = "none"
    /\ pc' = "loop"
    /\ after_eval' = [t \in DOMAIN after_eval |->
                         IF \E i \in 1..3 : correct_triangles[t][i].symbol = s
                         THEN Unknown ELSE after_eval[t]]
    /\ UNCHANGED <<result, printed>>
    /\ UNCHANGED ctorVars
    /\ UNCHANGED readerVars

\* on_message, up to the loop: store the tick
OnMessage(s, a, b) ==
    /\ pc = "idle"
    /\ data' = [s |-> s, a |-> a, b |-> b]
    /\ book_ticker_data' =
           [x \in DOMAIN book_ticker_data \cup {s} |->
               IF x = s THEN data' ELSE book_ticker_data[x]]
    /\ target' = 1
    /\ outcome' = "none"
    /\ pc' = "loop"
    /\ after_eval' = [t \in DOMAIN after_eval |->
                         IF \E i \in 1..3 : correct_triangles[t][i].symbol = s
                         THEN Unknown ELSE after_eval[t]]
    /\ UNCHANGED <<result, printed>>
    /\ UNCHANGED ctorVars
    /\ UNCHANGED readerVars

\* on_message, one turn of the loop over correct_triangles.  An exception leaves
\* the loop and the handler (the websocket library catches it and calls on_error).
LoopStep ==
    /\ pc = "loop"
    /\ IF target > Len(correct_triangles)
       THEN /\ pc' = "idle"
            /\ UNCHANGED <<result, outcome, target, printed, after_eval>>
       ELSE LET tp == correct_triangles[target] IN
            IF count(tp, book_ticker_data) = 3
            THEN LET r == calculate_triangular_arbitrage(tp, book_ticker_data, result) IN
                 /\ result' = r.result
                 /\ outcome' = IF r.raised = "none" THEN "evaluated" ELSE r.raised
                 /\ printed' = IF r.raised = "none" THEN printed ELSE r.raised
                 /\ after_eval' =
                        [after_eval EXCEPT ![target] =
                            IF Legs(tp).raised = "none"
                            THEN (IF arbitrage_code(Legs(tp)) \in Keys(r.result)
                                  THEN Get(r.result, arbitrage_code(Legs(tp)))
                                  ELSE <<>>)
                            ELSE Unknown]
                 /\ IF r.raised # "none" \/ target = Len(correct_triangles)
                    THEN pc' = "idle" /\ target' = target
                    ELSE pc' = "loop" /\ target' = target + 1
            ELSE /\ result' = result
                 /\ outcome' = "skipped"
                 /\ UNCHANGED <<printed, after_eval>>
                 /\ IF target = Len(correct_triangles)
                    THEN pc' = "idle" /\ target' = target
                    ELSE pc' = "loop" /\ target' = target + 1
    /\ data' = IF pc' = "idle" THEN NoTick ELSE data
    /\ UNCHANGED book_ticker_data
    /\ UNCHANGED ctorVars
    /\ UNCHANGED readerVars

Tick == \E s \in symbols : \E q \in TickQuotes : OnMessage(s, q[1], q[2])

Next == Tick \/ LoopStep

Spec == Init /\ [][Next]_vars

-----------------------------------------------------------------------------
\* update_table (src/main.py), a Dash callback on another thread: a list
\* comprehension over result.keys() that subscripts result three times a row.

ConcQuotes == {<<1, 1>>, <<3, 3>>}

InitConc ==
    /\ exchangeInfo \in ConcCatalogs
    /\ trading_pair_limit = TradingPairLimit
    /\ all_trading_pairs = fetch_trading_pairs(exchangeInfo, trading_pair_limit)
    /\ correct_triangles = find_correct_triangles(all_trading_pairs)
    /\ symbols = build_stream(correct_triangles)
    /\ pc = "idle"
    /\ Quiet
    /\ after_eval = NoneEvaluated(correct_triangles)

ingestVars == <<book_ticker_data, result, pc, data, target, outcome>>

\* iter(result.keys()): the iterator remembers the size of the dict
ReadStart ==
    /\ rd_pc = "idle"
    /\ rd_used' = Len(result)
    /\ rd_pos' = 0
    /\ element' = <<>>
    /\ rd_row' = NoRow
    /\ rd_src' = <<>>
    /\ display_data' = <<>>
    /\ rd_pc' = "next"
    /\ UNCHANGED ingestVars
    /\ UNCHANGED ctorVars
    /\ UNCHANGED auxVars

\* next() of the iterator: RuntimeError (dictionary changed size during
\* iteration) when the size is no longer the remembered one
ReadNext ==
    /\ rd_pc = "next"
    /\ IF rd_used # Len(result)
       THEN rd_pc' = "RuntimeError" /\ UNCHANGED <<rd_pos, element>>
       ELSE IF rd_pos >= Len(result)
       THEN rd_pc' = "returned" /\ UNCHANGED <<rd_pos, element>>
       ELSE /\ element' = result[rd_pos + 1].key
            /\ rd_pos' = rd_pos + 1
            /\ rd_pc' = "field"
    /\ rd_row' = NoRow
    /\ rd_src' = <<>>
    /\ UNCHANGED <<rd_used, display_data>>
    /\ UNCHANGED ingestVars
    /\ UNCHANGED ctorVars
    /\ UNCHANGED auxVars

\* result[element][0], result[element][1], result[element][2], one at a time
ReadField ==
    /\ rd_pc = "field"
    /\ LET v == Get(result, element) IN
       /\ rd_row' = Append(rd_row, v[Len(rd_row) + 1])
       /\ rd_src' = Append(rd_src, v)
    /\ IF Len(rd_row') = 3
       THEN display_data' = Append(display_data, <<element>> \o rd_row') /\ rd_pc' = "next"
       ELSE UNCHANGED <<display_data, rd_pc>>
    /\ UNCHANGED <<rd_used, rd_pos, element>>
    /\ UNCHANGED ingestVars
    /\ UNCHANGED ctorVars
    /\ UNCHANGED auxVars

\* the callback ends, with the rows or with the exception
ReadReturn ==
    /\ rd_pc \in {"returned", "RuntimeError"}
    /\ rd_pc' = "idle"
    /\ rd_used' = 0
    /\ rd_pos' = 0
    /\ element' = <<>>
    /\ rd_row' = NoRow
    /\ rd_src' = <<>>
    /\ display_data' = <<>>
    /\ UNCHANGED ingestVars
    /\ UNCHANGED ctorVars
    /\ UNCHANGED auxVars

TickConc == \E s \in symbols : \E q \in ConcQuotes : OnMessage(s, q[1], q[2])

NextConc == TickConc \/ LoopStep \/ ReadStart \/ ReadNext \/ ReadField \/ ReadReturn

SpecConc == InitConc /\ [][NextConc]_vars

-----------------------------------------------------------------------------
\* The transport's other callbacks: on_close and on_error only print.

TransportErrors == {"Connection to remote host was lost."}

on_close_line == "Connection Terminated"

\* a handler that forgets the quotes when the connection goes
OnCloseReset ==
    /\ pc = "idle"
    /\ printed' = on_close_line
    /\ book_ticker_data' = <<>>
    /\ UNCHANGED <<result, pc, data, target, outcome, after_eval>>
    /\ UNCHANGED ctorVars
    /\ UNCHANGED readerVars

OnClose ==
    /\ pc = "idle"
    /\ printed' = on_close_line
    /\ UNCHANGED <<book_ticker_data, result, pc, data, target, outcome, after_eval>>
    /\ UNCHANGED ctorVars
    /\ UNCHANGED readerVars

OnError(error) ==
    /\ pc = "idle"
    /\ printed' = error
    /\ UNCHANGED <<book_ticker_data, result, pc, data, target, outcome, after_eval>>
    /\ UNCHANGED ctorVars
    /\ UNCHANGED readerVars

TransportError == \E e \in TransportErrors : OnError(e)

NetCatalogs == {CatScenario}

InitNet ==
    /\ exchangeInfo \in NetCatalogs
    /\ trading_pair_limit = TradingPairLimit
    /\ all_trading_pairs = fetch_trading_pairs(exchangeInfo, trading_pair_limit)
    /\ correct_triangles = find_correct_triangles(all_trading_pairs)
    /\ symbols = build_stream(correct_triangles)
    /\ pc = "idle"
    /\ Quiet
    /\ after_eval = NoneEvaluated(correct_triangles)

NextNet == Tick \/ LoopStep \/ OnClose \/ TransportError

SpecNet == InitNet /\ [][NextNet]_vars

-----------------------------------------------------------------------------
\* Properties.

Absent == <<>>

Lookup(d, k) == IF k \in Keys(d) THEN Get(d, k) ELSE Absent

Tri(t) == correct_triangles[t]

Triangles == 1..Len(correct_triangles)

LegsOf(t) == Legs(Tri(t))

Assigned(t) == LegsOf(t).raised = "none"

CodeOf(t) == arbitrage_code(LegsOf(t))

SymbolsOf(t) == {Tri(t)[i].symbol : i \in 1..3}

FullyQuoted(t) == SymbolsOf(t) \subseteq DOMAIN book_ticker_data

Ask(p) == book_ticker_data[p.symbol].a

Bid(p) == book_ticker_data[p.symbol].b

SixPrices(t) ==
    {Ask(LegsOf(t).AB), Ask(LegsOf(t).BC), Ask(LegsOf(t).AC),
     Bid(LegsOf(t).AB), Bid(LegsOf(t).BC), Bid(LegsOf(t).AC)}

\* this step is the turn of the on_message loop that calls
\* calculate_triangular_arbitrage on triangle t
Invoked(t) ==
    /\ pc = "loop"
    /\ target = t
    /\ pc' = "idle" \/ target' = t + 1
    /\ outcome' \in {"evaluated", "DivisionByZero", "TypeError", "IndexError"}

\* C1: a triangle is evaluated only when its three legs are quoted, and while it
\* has one or two legs quoted no step creates or changes the entry under its code.
C1_PartialNeverPublished ==
    [][\A t \in Triangles :
          ~FullyQuoted(t)' =>
              /\ ~Invoked(t)
              /\ Assigned(t) => Lookup(result', CodeOf(t)) = Lookup(result, CodeOf(t))]_vars

\* C2: an evaluation that finds the ask of its closing leg AC at 0 ends in an
\* error and leaves the entry under the triangle's code as it was.
C2_ZeroAskAborts ==
    [][\A t \in Triangles :
          (Invoked(t) /\ Assigned(t) /\ Ask(LegsOf(t).AC) = 0) =>
              /\ outcome' = "DivisionByZero"
              /\ Lookup(result', CodeOf(t)) = Lookup(result, CodeOf(t))]_vars

\* C2 witness: an evaluation has just failed on a zero ask (the bid is not zero)
\* of its closing leg, and the entry published earlier is still there.
C2_Witness ==
    /\ pc = "idle"
    /\ outcome = "DivisionByZero"
    /\ Ask(LegsOf(target).AC) = 0
    /\ Bid(LegsOf(target).AC) # 0
    /\ CodeOf(target) \in Keys(result)

\* C3: an evaluation that finds any of its six prices zero or negative is aborted
\* and leaves the entry under the triangle's code as it was.
C3_NonPositiveAborts ==
    [][\A t \in Triangles :
          (Invoked(t) /\ Assigned(t) /\ \E x \in SixPrices(t) : x <= 0) =>
              /\ outcome' # "evaluated"
              /\ Lookup(result', CodeOf(t)) = Lookup(result, CodeOf(t))]_vars

\* C4: the three fields of every row the reader has built are those of one of the
\* values it read under that code.
C4_RowFromOneResult ==
    Len(rd_row) = 3 => \E i \in 1..3 : rd_row = rd_src[i]

\* C5: a read of the result dict never ends in an error.
C5_ReadCompletes == rd_pc # "RuntimeError"

\* the pairs of a 3-combination span three assets, no two of them mirrors
SpansThreeNoMirror(S) ==
    /\ Cardinality({p.left : p \in S} \cup {p.right : p \in S}) = 3
    /\ \A p \in S : \A q \in S : ~(p.left = q.right /\ p.right = q.left)

\* C6: the triangles are exactly the 3-combinations of the retained pairs that
\* span three assets without a mirror pair, each once; the catalog ETHBTC,
\* BNBETH, BNBBTC gives one triangle.
C6_TriangleSetIff ==
    pc \in {"found", "idle"} =>
        /\ {Range(correct_triangles[t]) : t \in Triangles}
             = {S \in SUBSET Range(all_trading_pairs) :
                   Cardinality(S) = 3 /\ SpansThreeNoMirror(S)}
        /\ \A t \in Triangles : \A u \in Triangles :
               Range(correct_triangles[t]) = Range(correct_triangles[u]) => t = u
        /\ Range(all_trading_pairs) = {Capsule(R_ETHBTC), Capsule(R_BNBETH), Capsule(R_BNBBTC)}
               => Len(correct_triangles) = 1

\* C6 witness: a catalog of four pairs has been searched; two of its four
\* combinations hold a pair and its mirror and the other two are triangles.
C6_Witness ==
    /\ pc = "idle"
    /\ exchangeInfo = CatMirror
    /\ Len(all_trading_pairs) = 4
    /\ Len(correct_triangles) = 2

\* C7: every accepted triangle has a pair whose quote asset is another pair's
\* base asset, and no evaluation fails for lack of a leg assignment.
C7_AcceptedHasChain ==
    /\ \A t \in Triangles : Hits(Tri(t)) # {}
    /\ outcome \notin {"TypeError", "IndexError"}

\* C8: during the tick of symbol s only triangles with s among their legs are
\* evaluated.
C8_OnlyReferencingEvaluated ==
    [][\A t \in Triangles : Invoked(t) => data.s \in SymbolsOf(t)]_vars

\* C9: with six positive prices the published flag is YES exactly when
\* ask(AB)*ask(BC) < bid(AC) or bid(AB)*bid(BC) > ask(AC).
C9_FlagExact ==
    [][\A t \in Triangles :
          (Invoked(t) /\ Assigned(t) /\ \A x \in SixPrices(t) : x > 0) =>
              /\ outcome' = "evaluated"
              /\ Get(result', CodeOf(t))[3] = "YES"
                   <=> \/ Ask(LegsOf(t).AB) * Ask(LegsOf(t).BC) < Bid(LegsOf(t).AC)
                       \/ Bid(LegsOf(t).AB) * Bid(LegsOf(t).BC) > Ask(LegsOf(t).AC)]_vars

\* the symbols of the legs an entry of the result dict was computed from
EntrySymbols(v) == {v[1][i][1] : i \in 1..3}

\* C10: two triangles never share a code, and an entry is only overwritten by an
\* evaluation of the triangle that published it.
C10_OneResultPerTriangle ==
    [][\A t \in Triangles :
          (Invoked(t) /\ outcome' = "evaluated") =>
              /\ \A u \in Triangles : (u # t /\ Assigned(u)) => CodeOf(u) # CodeOf(t)
              /\ CodeOf(t) \in Keys(result)
                   => EntrySymbols(Get(result, CodeOf(t))) = SymbolsOf(t)]_vars

\* C11: an evaluation of a triangle none of whose legs was ticked since its last
\* evaluation leaves the entry under its code as that evaluation left it.
C11_Idempotent ==
    [][\A t \in Triangles :
          (Invoked(t) /\ Assigned(t) /\ after_eval[t] # Unknown) =>
              Lookup(result', CodeOf(t)) = after_eval[t]]_vars

\* C12: a close or error event of the transport changes nothing but the line
\* printed, so the ticks that follow are handled from the state they would have
\* found without it.
C12_TransportEventsKeepState ==
    [][(pc = "idle" /\ pc' = "idle") =>
          UNCHANGED <<exchangeInfo, trading_pair_limit, all_trading_pairs,
                      correct_triangles, symbols, book_ticker_data, result,
                      data, target, outcome, after_eval>>]_vars

\* C12 witness: the connection was closed after a result was published, and a
\* later tick is being handled.
C12_Witness ==
    /\ printed = on_close_line
    /\ pc = "loop"
    /\ result # <<>>

\* C13: the store starts empty; a tick stores its ask and bid under its symbol and
\* touches no other symbol, and nothing else changes the store.
C13_StoreHoldsLatest ==
    /\ book_ticker_data = <<>>
    /\ [][IF pc = "idle" /\ pc' = "loop"
          THEN /\ DOMAIN book_ticker_data' = DOMAIN book_ticker_data \cup {data'.s}
               /\ book_ticker_data'[data'.s].a = data'.a
               /\ book_ticker_data'[data'.s].b = data'.b
               /\ \A x \in DOMAIN book_ticker_data \ {data'.s} :
                      book_ticker_data'[x] = book_ticker_data[x]
          ELSE book_ticker_data' = book_ticker_data]_vars

\* the price stored for symbol x in item i (1 asks, 2 bids) of an entry
EntryPrice(v, i, x) == v[i][CHOOSE j \in 1..3 : v[i][j][1] = x][2]

\* C13 witness: a tick has just replaced a quote that an entry still shows, and a
\* subscribed symbol that was never ticked is absent from the store.
C13_Witness ==
    /\ pc = "loop"
    /\ \E k \in 1..Len(result) :
          /\ data.s \in EntrySymbols(result[k].val)
          /\ EntryPrice(result[k].val, 1, data.s) # data.a
          /\ book_ticker_data[data.s].a = data.a
    /\ \E x \in symbols : x \notin DOMAIN book_ticker_data

\* C14: the legs of every evaluation are three distinct pairs with
\* quote(AB) = base(BC), base(AC) = base(AB) and quote(AC) = quote(BC).
C14_ClosingLegOrientation ==
    [][\A t \in Triangles :
          (Invoked(t) /\ Assigned(t)) =>
              LET L == LegsOf(t) IN
              /\ Cardinality({L.AB, L.BC, L.AC}) = 3
              /\ L.AB.right = L.BC.left
              /\ L.AC.left = L.AB.left
              /\ L.AC.right = L.BC.right]_vars

\* the entry calculate_triangular_arbitrage computes from the stored quotes
FreshEntry(t) ==
    Entry(LegsOf(t), book_ticker_data,
          IF \/ DecLtOne(condition1(LegsOf(t), book_ticker_data))
             \/ DecGtOne(condition2(LegsOf(t), book_ticker_data))
          THEN "YES" ELSE "NO")

Positive(t) == FullyQuoted(t) /\ Assigned(t) /\ \A x \in SixPrices(t) : x > 0

\* C15: when a tick handler has finished, every fully quoted triangle with six
\* positive prices has the entry computed from the stored quotes under its code.
C15_NoStaleResult ==
    (pc = "idle" /\ outcome # "none") =>
        \A t \in Triangles : Positive(t) => Lookup(result, CodeOf(t)) = FreshEntry(t)

\* C16: an evaluation that raises does not end the handler while a later triangle
\* of the list is fully quoted with positive prices.
C16_ErrorAbortsOnlyOne ==
    [][(pc = "loop" /\ pc' = "idle"
        /\ outcome' \in {"DivisionByZero", "TypeError", "IndexError"}) =>
          \A u \in (target + 1)..Len(correct_triangles) : ~Positive(u)]_vars

\* the symbols of an entry in the order AB, BC, AC
EntryRoles(v) == <<v[1][1][1], v[1][2][1], v[1][3][1]>>

\* C17: no step changes the triangles, and entries computed from the same three
\* pairs have the same code and the same pair in each role, before and after
\* every step.
C17_TrianglesAndRolesFixed ==
    [][/\ correct_triangles' = correct_triangles
       /\ \A i \in 1..Len(result') : \A j \in 1..Len(result) :
             EntrySymbols(result'[i].val) = EntrySymbols(result[j].val) =>
                 /\ result'[i].key = result[j].key
                 /\ EntryRoles(result'[i].val) = EntryRoles(result[j].val)]_vars

\* C17 witness: the triangle whose pairs form a directed cycle, where three leg
\* assignments exist, is about to be evaluated again with a new quote.
C17_Witness ==
    /\ exchangeInfo = CatCycle
    /\ pc = "loop"
    /\ Len(result) = 1
    /\ EntryPrice(result[1].val, 1, data.s) # data.a
    /\ \A x \in DOMAIN book_ticker_data :
          book_ticker_data[x].a # 0 /\ book_ticker_data[x].b # 0

IsTargetRecord(e) == e.baseAsset \in target_assets \/ e.quoteAsset \in target_assets

\* C18: the retained pairs are the first trading_pair_limit records of the
\* catalog with a target asset, in catalog order; every leg of a triangle is a
\* retained pair; no such record gives no triangle.
C18_RetainedPairs ==
    pc \in {"fetched", "found", "idle"} =>
        LET want == SelectSeq(exchangeInfo, IsTargetRecord)
            n    == IF Len(want) < trading_pair_limit THEN Len(want) ELSE trading_pair_limit
        IN  /\ Len(all_trading_pairs) <= trading_pair_limit
            /\ \A i \in 1..Len(all_trading_pairs) :
                   \/ all_trading_pairs[i].left \in target_assets
                   \/ all_trading_pairs[i].right \in target_assets
            /\ all_trading_pairs = [i \in 1..n |-> Capsule(want[i])]
            /\ pc \in {"found", "idle"} =>
                   /\ \A t \in Triangles : \A i \in 1..3 :
                          correct_triangles[t][i] \in Range(all_trading_pairs)
                   /\ want = <<>> => correct_triangles = <<>>

\* C18 witness: a catalog of four records that starts with one without a target
\* asset has been cut to two of its three records with a target asset.
C18_Witness ==
    /\ pc = "idle"
    /\ Len(exchangeInfo) = 4
    /\ exchangeInfo[1] = R_FOOBAR
    /\ trading_pair_limit = 2
    /\ Len(all_trading_pairs) = 2

====
